---------------------------- MODULE Spec2Model ----------------------------
(***************************************************************************)
(* Agentic Nutrition Planner (src/app.py): the plan workflow, the intent   *)
(* classifier, the request analyzer, the structured extractors and the     *)
(* session handlers of the Streamlit script, as one state machine.         *)
(*                                                                         *)
(* A Streamlit script runs top to bottom once per user interaction; every  *)
(* widget handler is therefore one sequential run over the session state.  *)
(* A handler that calls generate_plan_workflow is modelled stage by stage  *)
(* (pc), because each stage is a blocking generation call that may raise.  *)
(***************************************************************************)
EXTENDS Integers, Sequences, FiniteSets, TLC

(***************************************************************************)
(* Program constants                                                       *)
(***************************************************************************)
MAX_RETRIES == 5
CAL_TOLERANCE == 25

(***************************************************************************)
(* Bounds of the model                                                     *)
(***************************************************************************)
\* script runs of one session that issue generation calls
MaxRuns == 2

\* rows of the diet_plans table
MaxHistory == 1

(***************************************************************************)
(* Python values.  None and absent session keys are tagged records, so     *)
(* that a value and its absence are always comparable.                     *)
(***************************************************************************)
None == [t |-> "None"]
Some(x) == [t |-> "some", v |-> x]
IsNone(x) == x.t = "None"
\* a key that st.session_state does not hold
Unset == [t |-> "Unset"]
IsSet(x) == x.t = "some"
\* st.session_state.get(key, default)
Get(x, default) == IF IsSet(x) THEN x.v ELSE default

\* JSON scalars as json.loads returns them
JNull == [t |-> "null"]
JNum(n) == [t |-> "num", v |-> n]
JStr(s) == [t |-> "str", v |-> s]

\* Python truthiness of a decoded JSON scalar (None, 0 and "" are falsy)
Truthy(j) ==
    CASE j.t = "null" -> FALSE
      [] j.t = "num" -> j.v # 0
      [] j.t = "str" -> j.v # ""
      [] OTHER -> TRUE

Min(a, b) == IF a < b THEN a ELSE b
Abs(a) == IF a < 0 THEN -a ELSE a

(***************************************************************************)
(* Text.  A generated text is a sequence of tokens; a token is one phrase  *)
(* the extractors' regular expressions can see, with the run of digits     *)
(* and commas it carries kept as a string of characters (d):               *)
(*   total_kcal      "Total: <d> kcal"                                     *)
(*   hash_total      "#Total: <d> calories"                                *)
(*   total_calories  "Total calories: <d>"                                 *)
(*   meal_kcal       "Breakfast|Lunch|Dinner|Snacks: <d> kcal"             *)
(*   kcal            "<d> kcal"                                            *)
(*   cost_closed     "### TOTAL_COST: <d> ###"                             *)
(*   cost_closed_lc  "### total_cost: <d> ###"                             *)
(*   cost_open       "### TOTAL_COST: <d>"                                 *)
(*   cost_label      "TOTAL_COST: <d>"                                     *)
(*   total_cost_nl   "Total Cost: ₹<d>"                                    *)
(*   total_colon     "Total: ₹<d>"                                         *)
(*   rupee           "₹<d>"                                                *)
(*   word            prose without digits                                  *)
(***************************************************************************)
Digits == {"0", "1", "2", "3", "4", "5", "6", "7", "8", "9"}

DigitVal(c) ==
    CASE c = "0" -> 0 [] c = "1" -> 1 [] c = "2" -> 2 [] c = "3" -> 3
      [] c = "4" -> 4 [] c = "5" -> 5 [] c = "6" -> 6 [] c = "7" -> 7
      [] c = "8" -> 8 [] c = "9" -> 9

Tok(kind, chars) == [k |-> kind, d |-> chars]

\* str.isdigit(): non-empty and every character a digit
isdigit(s) == Len(s) > 0 /\ \A i \in 1..Len(s) : s[i] \in Digits

\* int(s) of a string of digits
RECURSIVE int(_)
int(s) ==
    IF Len(s) = 0 THEN 0
    ELSE 10 * int(SubSeq(s, 1, Len(s) - 1)) + DigitVal(s[Len(s)])

\* s.replace(",", "")
StripCommas(s) == SelectSeq(s, LAMBDA c : c # ",")

\* the first n characters, the last n characters
Prefix(s, n) == SubSeq(s, 1, Min(n, Len(s)))
Suffix(s, n) == SubSeq(s, Len(s) - Min(n, Len(s)) + 1, Len(s))

\* re.search: the leftmost of the positions that match, 0 when there is none
Leftmost(positions) ==
    IF positions = {} THEN 0
    ELSE CHOOSE i \in positions : \A j \in positions : i <= j

RECURSIVE SumSeq(_)
SumSeq(s) == IF Len(s) = 0 THEN 0 ELSE s[1] + SumSeq(Tail(s))

\* the run of digits a string starts with, and the run it ends with
RECURSIVE LeadingDigits(_)
LeadingDigits(s) ==
    IF Len(s) = 0 \/ s[1] \notin Digits THEN << >>
    ELSE << s[1] >> \o LeadingDigits(Tail(s))

RECURSIVE TrailingDigits(_)
TrailingDigits(s) ==
    IF Len(s) = 0 \/ s[Len(s)] \notin Digits THEN << >>
    ELSE TrailingDigits(SubSeq(s, 1, Len(s) - 1)) \o << s[Len(s)] >>

(***************************************************************************)
(* extract_calories                                                        *)
(***************************************************************************)
\* tier 1: the three explicit-total patterns, in order; (\d{3,5}) is
\* anchored on both sides in the first and on the left in the others
ExplicitMatch(p, tok) ==
    CASE p = 1 -> tok.k = "total_kcal" /\ isdigit(tok.d) /\ Len(tok.d) \in 3..5
      [] p = 2 -> tok.k = "hash_total" /\ Len(LeadingDigits(tok.d)) >= 3
      [] p = 3 -> tok.k = "total_calories" /\ Len(LeadingDigits(tok.d)) >= 3

ExplicitGroup(p, tok) == IF p = 1 THEN tok.d ELSE Prefix(LeadingDigits(tok.d), 5)

ExplicitHit(p, text) == Leftmost({i \in 1..Len(text) : ExplicitMatch(p, text[i])})

\* tier 2: <meal> (\d{2,4}) kcal, the group anchored on both sides
MealMatch(tok) == tok.k = "meal_kcal" /\ isdigit(tok.d) /\ Len(tok.d) \in 2..4

\* tier 3: (\d{2,4})\s*kcal anywhere, the group anchored on the right only
KcalMatch(tok) ==
    tok.k \in {"total_kcal", "meal_kcal", "kcal"} /\ Len(TrailingDigits(tok.d)) >= 2

KcalGroup(tok) == Suffix(TrailingDigits(tok.d), 4)

RECURSIVE MealValues(_)
MealValues(text) ==
    IF Len(text) = 0 THEN << >>
    ELSE (IF MealMatch(text[1]) THEN << int(text[1].d) >> ELSE << >>)
            \o MealValues(Tail(text))

RECURSIVE NumericKcals(_)
NumericKcals(text) ==
    IF Len(text) = 0 THEN << >>
    ELSE (IF KcalMatch(text[1]) /\ int(KcalGroup(text[1])) >= 50
                                /\ int(KcalGroup(text[1])) <= 2000
          THEN << int(KcalGroup(text[1])) >> ELSE << >>)
            \o NumericKcals(Tail(text))

extract_calories(plan_text) ==
    IF \E p \in 1..3 : ExplicitHit(p, plan_text) # 0
    THEN LET p == CHOOSE q \in 1..3 :
                    /\ ExplicitHit(q, plan_text) # 0
                    /\ \A r \in 1..(q - 1) : ExplicitHit(r, plan_text) = 0
         IN  int(ExplicitGroup(p, plan_text[ExplicitHit(p, plan_text)]))
    ELSE IF MealValues(plan_text) # << >>
    THEN SumSeq(MealValues(plan_text))
    ELSE IF NumericKcals(plan_text) # << >> /\ SumSeq(NumericKcals(plan_text)) <= 6000
    THEN SumSeq(NumericKcals(plan_text))
    ELSE 0

(***************************************************************************)
(* Cost extraction                                                         *)
(***************************************************************************)
\* line 842: ###\s*TOTAL_COST:\s*([\d,]+), case-sensitive
BudgetCostMatch(tok) == tok.k \in {"cost_closed", "cost_open"}

BudgetCostHit(text) == Leftmost({i \in 1..Len(text) : BudgetCostMatch(text[i])})

budget_cost(plan_text) ==
    IF BudgetCostHit(plan_text) # 0
    THEN StripCommas(plan_text[BudgetCostHit(plan_text)].d)
    ELSE << "0" >>

\* lines 892-899: the six patterns, searched with re.IGNORECASE
NumPatterns == 6

PatternMatch(p, tok) ==
    CASE p = 1 -> tok.k \in {"cost_closed", "cost_closed_lc"}
      [] p = 2 -> tok.k \in {"cost_closed", "cost_closed_lc", "cost_open"}
      [] p = 3 -> tok.k \in {"cost_closed", "cost_closed_lc", "cost_open", "cost_label"}
      [] p = 4 -> tok.k = "total_cost_nl"
      [] p = 5 -> tok.k \in {"total_colon", "total_kcal", "hash_total"}
      [] p = 6 -> tok.k \in {"total_cost_nl", "total_colon", "rupee"}

PatternHit(p, text) == Leftmost({i \in 1..Len(text) : PatternMatch(p, text[i])})

\* one for-loop over the patterns: a match overwrites extracted_cost, an
\* all-digit match ends the loop
RECURSIVE SearchPatterns(_, _, _)
SearchPatterns(text, p, extracted_cost) ==
    IF p > NumPatterns THEN extracted_cost
    ELSE IF PatternHit(p, text) = 0 THEN SearchPatterns(text, p + 1, extracted_cost)
    ELSE LET got == StripCommas(text[PatternHit(p, text)].d)
         IN  IF isdigit(got) THEN got ELSE SearchPatterns(text, p + 1, got)

final_extracted_cost(final_output, plan_text) ==
    LET first == SearchPatterns(final_output, 1, << "0" >>)
    IN  IF first = << "0" >> THEN SearchPatterns(plan_text, 1, first) ELSE first

\* re.sub(r"[^\d.]", "", str(x)) then float(): the previous cost of a regeneration
ParseCost(budget) ==
    LET clean == SelectSeq(Get(budget, << "0" >>), LAMBDA c : c \in Digits)
    IN  IF Len(clean) = 0 THEN None ELSE Some(int(clean))

(***************************************************************************)
(* Energy and protein targets                                              *)
(***************************************************************************)
\* variant: an unknown activity counts as Active
MultiplierUnknownActive(activity) ==
    CASE activity = "Sedentary" -> 120
      [] activity = "Very Active" -> 190
      [] OTHER -> 155

\* the activity multiplier, in hundredths
Multiplier(activity) ==
    CASE activity = "Sedentary" -> 120
      [] activity = "Active" -> 155
      [] activity = "Very Active" -> 190
      [] OTHER -> 120

\* bmr in quarters: 4 * (10 w + 6.25 h - 5 a + c)
Bmr4(weight, height, age, gender) ==
    40 * weight + 25 * height - 20 * age + (IF gender = "Male" THEN 20 ELSE -644)

\* int(bmr * multiplier) truncates toward zero
calculate_needs(weight, height, age, gender, activity) ==
    LET n == Bmr4(weight, height, age, gender) * Multiplier(activity)
    IN  IF n >= 0 THEN n \div 400 ELSE -((-n) \div 400)

calculate_protein(weight) == weight * 2

(***************************************************************************)
(* estimate_food_carbon.  A food text is the set of the keywords that      *)
(* occur in its lower-cased form; the value is in hundredths of a kg CO2e. *)
(***************************************************************************)
\* any(x in text for x in [...])
AnyIn(keywords, text) == keywords \cap text # {}

estimate_food_carbon(food_text) ==
    IF AnyIn({ "mutton", "lamb", "beef" }, food_text) THEN 250
    ELSE IF AnyIn({ "chicken" }, food_text) THEN 80
    ELSE IF AnyIn({ "paneer", "cheese", "butter" }, food_text) THEN 60
    ELSE IF AnyIn({ "egg" }, food_text) THEN 40
    ELSE IF AnyIn({ "fish" }, food_text) THEN 50
    ELSE IF AnyIn({ "dal", "lentil", "beans" }, food_text) THEN 20
    ELSE IF AnyIn({ "vegetable", "sabzi", "salad" }, food_text) THEN 15
    ELSE IF AnyIn({ "rice", "roti", "chapati" }, food_text) THEN 25
    ELSE 35

(***************************************************************************)
(* Replies of the generation backend to the two JSON sub-agents.           *)
(*   raise    the call raises                                              *)
(*   text     prose that is no JSON and holds no brace-delimited object    *)
(*   object   one flat JSON object (obj), bare or wrapped in prose         *)
(*   string   a JSON string literal; names = the field names it contains   *)
(*   array    a JSON array of strings; names = the field names among them  *)
(*   scalar   a JSON number, true, false or null                           *)
(***************************************************************************)
Raise == [kind |-> "raise"]
Prose == [kind |-> "text"]
Object(obj, wrapped) == [kind |-> "object", obj |-> obj, wrapped |-> wrapped]
StringLit(names) == [kind |-> "string", names |-> names]
Array(names) == [kind |-> "array", names |-> names]
Scalar == [kind |-> "scalar"]

\* re.search(r'\{[^{}]*"<key>"[^{}]*\}') then json.loads: the decoded value,
\* or an error when the text is no JSON
Decode(reply, key) ==
    CASE reply.kind = "raise" -> [err |-> "GenerationError"]
      [] reply.kind = "text" -> [err |-> "JSONDecodeError"]
      [] reply.kind = "object" ->
            IF reply.wrapped /\ key \notin DOMAIN reply.obj
            THEN [err |-> "JSONDecodeError"]
            ELSE [err |-> "none", val |-> [kind |-> "dict", d |-> reply.obj]]
      [] OTHER -> [err |-> "none", val |-> reply]

\* Python's  key in value  for a decoded value: dict key, substring of a
\* str, element of a list; a TypeError for the scalars
Contains(val, key) ==
    CASE val.kind = "dict" -> [err |-> "none", has |-> key \in DOMAIN val.d]
      [] val.kind \in {"string", "array"} -> [err |-> "none", has |-> key \in val.names]
      [] OTHER -> [err |-> "TypeError"]

(***************************************************************************)
(* detect_user_intent                                                      *)
(***************************************************************************)
IntentFallback(e) ==
    [kind |-> "dict",
     d |-> [intent |-> JStr("GENERAL_QUESTION"), confidence |-> "0.5",
            duration |-> JNull, meals_per_day |-> JNull, feedback |-> JNull,
            reasoning |-> "Error parsing intent"]]

detect_user_intent(reply) ==
    LET dec == Decode(reply, "intent")
    IN  IF dec.err # "none" THEN IntentFallback(dec.err)
        ELSE LET c == Contains(dec.val, "intent")
             IN  IF c.err # "none" THEN IntentFallback(c.err)
                 ELSE IF ~c.has THEN IntentFallback("ValueError")
                 ELSE dec.val

(***************************************************************************)
(* analyze_user_request                                                    *)
(***************************************************************************)
required_fields ==
    << "cost_target", "cost_adjustment", "items_to_avoid", "items_to_include",
       "preferences", "constraints", "reasoning" >>

FieldDefault(field) ==
    CASE field = "cost_target" -> JNull
      [] field \in {"items_to_avoid", "items_to_include", "preferences", "constraints"}
            -> << >>
      [] field = "cost_adjustment" -> "maintain"
      [] OTHER -> ""

DefaultDirective(reasoning) ==
    [kind |-> "dict",
     d |-> [cost_target |-> JNull, cost_adjustment |-> "maintain",
            items_to_avoid |-> << >>, items_to_include |-> << >>,
            preferences |-> << >>, constraints |-> << >>,
            reasoning |-> reasoning]]

\* the loop over required_fields: a missing field is assigned its default,
\* which raises TypeError on a str or a list
Backfill(val) ==
    LET missing == {required_fields[i] : i \in 1..Len(required_fields)}
                        \ (IF val.kind = "dict" THEN DOMAIN val.d ELSE val.names)
    IN  CASE val.kind = "dict" ->
                [err |-> "none",
                 val |-> [kind |-> "dict",
                          d |-> val.d @@ [f \in missing |-> FieldDefault(f)]]]
          [] val.kind \in {"string", "array"} ->
                IF missing = {} THEN [err |-> "none", val |-> val]
                ELSE [err |-> "TypeError"]
          [] OTHER -> [err |-> "TypeError"]

\* a shortcut that tests  user_feedback is None  instead
NoFeedbackNoneOnly(user_feedback) == IsNone(user_feedback)

\* not user_feedback: None or the empty string
NoFeedback(user_feedback) == IsNone(user_feedback) \/ user_feedback.v = ""

\* result: the value returned; called: whether the generation call was issued
analyze_user_request(user_feedback, reply) ==
    IF NoFeedback(user_feedback)
    THEN [result |-> DefaultDirective("No feedback provided"), called |-> FALSE]
    ELSE LET dec == Decode(reply, "cost_target")
         IN  [result |->
                IF dec.err # "none" THEN DefaultDirective("Error analyzing request")
                ELSE IF Backfill(dec.val).err # "none"
                THEN DefaultDirective("Error analyzing request")
                ELSE Backfill(dec.val).val,
              called |-> TRUE]

\* replies the model draws for the request analysis
AnalysisReplies ==
    { Raise, Prose, Scalar,
      Object([cost_target |-> JNum(200), cost_adjustment |-> "target",
              items_to_avoid |-> << "paneer" >>, items_to_include |-> << >>,
              preferences |-> << >>, constraints |-> << >>,
              reasoning |-> "r"], FALSE),
      Object([cost_adjustment |-> "decrease"], FALSE),
      Object([cost_target |-> JNull, items_to_include |-> << "fish" >>], TRUE),
      StringLit({required_fields[i] : i \in 1..Len(required_fields)}),
      StringLit({"cost_target"}),
      Array({}) }

\* replies the model draws for the intent classification
IntentObject(intent, duration, feedback) ==
    Object([intent |-> intent, confidence |-> "0.9", duration |-> duration,
            meals_per_day |-> JNull, feedback |-> feedback, reasoning |-> "r"], FALSE)

IntentReplies ==
    { Raise, Prose, Scalar,
      IntentObject(JStr("CREATE_PLAN"), JNull, JNull),
      IntentObject(JStr("CREATE_PLAN"), JNum(9), JNull),
      IntentObject(JStr("CREATE_PLAN"), JNum(-2), JNull),
      IntentObject(JStr("ANSWER_DURATION"), JNum(9), JNull),
      IntentObject(JStr("ANSWER_DURATION"), JNum(0), JNull),
      IntentObject(JStr("REGENERATE_PLAN"), JNull, JStr("fb")),
      IntentObject(JStr("REGENERATE_PLAN"), JNull, JNull),
      IntentObject(JStr("GENERAL_QUESTION"), JNull, JNull),
      IntentObject(JStr("DELETE_PLAN"), JNull, JNull),
      Object([intent |-> JStr("GENERAL_QUESTION")], TRUE),
      Object([confidence |-> "0.9", duration |-> JNum(3)], FALSE),
      StringLit({"intent"}), StringLit({}), Array({"intent"}), Array({}) }

(***************************************************************************)
(* Inputs the model draws                                                  *)
(***************************************************************************)
\* rows of the users table (u_data)
Profiles ==
    { [email |-> "a@x.io", age |-> 25, gender |-> "Male", height |-> 175,
       weight |-> 70, goal_weight |-> 65, activity |-> "Sedentary",
       meals_per_day |-> 3],
      [email |-> "b@x.io", age |-> 30, gender |-> "Female", height |-> 170,
       weight |-> 60, goal_weight |-> 65, activity |-> "Active",
       meals_per_day |-> 3] }

\* texts the Calorie Correction agent may return: 1633 kcal in total with
\* a cost line, and three meals of 2394 kcal together without one
CorrectionTexts ==
    { << Tok("total_kcal", << "1", "6", "3", "3" >>),
         Tok("cost_closed", << "1", ",", "5", "0", "0" >>) >>,
      << Tok("meal_kcal", << "8", "0", "0" >>), Tok("meal_kcal", << "8", "0", "0" >>),
         Tok("meal_kcal", << "7", "9", "4" >>) >> }

\* texts the Budget agent may return: those, and 1634 kcal in total
PlanTexts ==
    CorrectionTexts
        \cup { << Tok("total_kcal", << "1", "6", "3", "4" >>), Tok("word", << >>) >> }

\* texts the Manager agent may return
ManagerTexts ==
    { << Tok("word", << >>), Tok("rupee", << "1", "4", "5", "0" >>) >> }

\* values of the Duration (Days) number input: st.number_input(.., 1, 7)
ForecastDays == {2}

\* a plan approved in an earlier session
StoredPlan(email) ==
    [email |-> email,
     plan_text |-> << Tok("word", << >>), Tok("rupee", << "9", "0", "0" >>) >>,
     status |-> "approved", feedback |-> None]

UserMsg == [role |-> "user", content |-> "msg"]
Assistant(content) == [role |-> "assistant", content |-> content]

(***************************************************************************)
(* State                                                                   *)
(***************************************************************************)
VARIABLES
    user_info,          \* st.session_state['user_info'], the logged-in row
    pending_plan,       \* st.session_state['pending_plan']
    total_budget,       \* st.session_state['total_budget']
    plan_duration,      \* st.session_state['plan_duration']
    feedback_mode,      \* st.session_state['feedback_mode']
    live_chat,          \* st.session_state['live_chat']
    agent_memory,       \* st.session_state['agent_memory']
    current_strategy,   \* st.session_state['current_strategy']
    diet_plans,         \* rows of the diet_plans table
    pc,                 \* position of the running script: idle, a workflow stage, end
    entry,              \* the handler that called generate_plan_workflow
    wf,                 \* locals of the running generate_plan_workflow call
                        \* (analysis_reply: the reply inside analyze_user_request,
                        \* gone once the next stage starts)
    calls,              \* generation calls issued by the running script, in order
    raised,             \* the exception that left the running script
    intent_data,        \* the running script's detect_user_intent result
    intent_reply,       \* what the backend replied to that classification
    runs,               \* script runs of the session so far
    call,               \* a helper function called on its own: name, arguments,
                        \* and the value returned once it has run
    users,              \* rows of the users table, by email
    chat_context        \* the running script's user_context, the text handed
                        \* to live_chat_reply: its MEAL PLAN CONTEXT

vars ==
    << user_info, pending_plan, total_budget, plan_duration, feedback_mode,
       live_chat, agent_memory, current_strategy, diet_plans, pc, entry, wf,
       calls, raised, intent_data, intent_reply, runs, call, users,
       chat_context >>

\* the session state a plan run may write
Snapshot ==
    [pending_plan |-> pending_plan, total_budget |-> total_budget,
     plan_duration |-> plan_duration, feedback_mode |-> feedback_mode,
     agent_memory |-> agent_memory, current_strategy |-> current_strategy]

NoWorkflow ==
    [goal |-> "", duration |-> 0, meals_per_day |-> 0, feedback |-> None,
     previous_cost |-> None, analysis_reply |-> None, request_analysis |-> None,
     target_cals |-> 0, plan_text |-> << >>,
     attempt |-> 0, last_correction |-> None, manager_in |-> None,
     final_output |-> None, final_cost |-> None, extracted_cost |-> None,
     failed |-> FALSE, error |-> "none", before |-> None]

\* line 70: the SHA-256 digest of a password, kept apart from the password
make_hashes(password) == << "sha256", password >>

\* a row of the users table; email is its primary key (line 40)
UserRow(info, password) ==
    [email |-> info.email, password |-> make_hashes(password), info |-> info]

\* an insert that replaces the row of an email the table holds
add_user_or_replace(table, info, password) ==
    [ok |-> TRUE,
     table |-> { row \in table : row.email # info.email }
                 \cup { UserRow(info, password) }]

\* lines 74-83: the INSERT raises IntegrityError for an email the table
\* holds, and add_user returns False; otherwise the row is added
add_user(table, info, password) ==
    IF \E row \in table : row.email = info.email
    THEN [ok |-> FALSE, table |-> table]
    ELSE [ok |-> TRUE, table |-> table \cup { UserRow(info, password) }]

\* no helper function is being called on its own
NoCall == [fn |-> "none", args |-> << >>, ret |-> None]

Init ==
    /\ user_info \in Profiles
    /\ pending_plan = None
    /\ total_budget = Unset
    /\ plan_duration = Unset
    /\ feedback_mode = FALSE
    /\ live_chat = << >>
    /\ agent_memory = [meal_plan |-> None, plan_duration |-> None, total_budget |-> None]
    /\ current_strategy = Unset
    /\ diet_plans \in {<< >>, << StoredPlan(user_info.email) >>}
    /\ pc = "idle"
    /\ entry = "none"
    /\ wf = NoWorkflow
    /\ calls = << >>
    /\ raised = "none"
    /\ intent_data = None
    /\ intent_reply = None
    /\ runs = 0
    /\ call = NoCall
    /\ users = { UserRow(user_info, "pw1") }
    /\ chat_context = None

(***************************************************************************)
(* generate_plan_workflow, stage by stage                                  *)
(***************************************************************************)
\* an objective that gives the heavier profile the gain
ObjectiveHeavierGains(u) ==
    IF u.weight > u.goal_weight THEN "Muscle Gain" ELSE "Weight Loss"

\* the objective every caller passes: lines 1201, 1299, 1361, 1392, 1431
Objective(u) == IF u.weight > u.goal_weight THEN "Weight Loss" ELSE "Muscle Gain"

\* word in goal, for the objectives of lines 1178-1186 and 1201
InGoal(word, goal) ==
    CASE goal = "Weight Loss" -> word \in { "Weight", "Loss" }
      [] goal = "Muscle Gain" -> word \in { "Muscle", "Gain" }
      [] OTHER -> FALSE

\* line 572
TargetCals(tdee, goal) ==
    IF InGoal("Gain", goal) THEN tdee + 300
    ELSE IF InGoal("Loss", goal) THEN tdee - 400
    ELSE tdee

\* the call of generate_plan_workflow by handler e
StartWorkflow(e, duration, meals, feedback, previous_cost) ==
    /\ pc' = "analysis"
    /\ entry' = e
    /\ wf' = [NoWorkflow EXCEPT !.goal = Objective(user_info),
                                !.duration = duration, !.meals_per_day = meals,
                                !.feedback = feedback,
                                !.previous_cost = previous_cost,
                                !.before = Some(Snapshot)]

\* a workflow that records the duration in the memory before it raises
WorkflowRaisesAfterWrite(err) ==
    /\ pc' = "end"
    /\ wf' = [wf EXCEPT !.failed = TRUE, !.error = err, !.analysis_reply = None]
    /\ agent_memory' = [agent_memory EXCEPT !.plan_duration = Some(wf.duration)]
    /\ raised' = err
    /\ UNCHANGED << call, users, chat_context, user_info, pending_plan,
                    total_budget, plan_duration,
                    feedback_mode, live_chat, current_strategy, diet_plans,
                    entry, intent_data, intent_reply, runs >>

\* an exception leaves generate_plan_workflow: only the ANSWER_DURATION
\* branch wraps the call in try/except (lines 1386-1411); its handler
\* appends the duration question and then st.success() without a body
\* raises TypeError
WorkflowRaises(err) ==
    /\ pc' = "end"
    /\ wf' = [wf EXCEPT !.failed = TRUE, !.error = err, !.analysis_reply = None]
    /\ IF entry = "answer"
       THEN /\ live_chat' = Append(live_chat, Assistant("need_number"))
            /\ raised' = "TypeError"
       ELSE /\ raised' = err
            /\ UNCHANGED live_chat
    /\ UNCHANGED << call, users, chat_context, user_info, pending_plan,
                    total_budget, plan_duration,
                    feedback_mode, agent_memory, current_strategy, diet_plans,
                    entry, intent_data, intent_reply, runs >>

\* line 566: the Request Analysis stage
AnalysisStage ==
    /\ pc = "analysis"
    /\ \E reply \in AnalysisReplies :
          LET res == analyze_user_request(wf.feedback, reply)
          IN  /\ wf' = [wf EXCEPT
                          !.analysis_reply =
                              IF res.called THEN Some(reply) ELSE None,
                          !.request_analysis = res.result,
                          !.target_cals =
                              TargetCals(calculate_needs(user_info.weight,
                                            user_info.height, user_info.age,
                                            user_info.gender, user_info.activity),
                                         wf.goal)]
              /\ calls' = IF res.called THEN Append(calls, "Analysis") ELSE calls
    /\ pc' = "doctor"
    /\ UNCHANGED << call, users, chat_context, user_info, pending_plan,
                    total_budget, plan_duration,
                    feedback_mode, live_chat, agent_memory, current_strategy,
                    diet_plans, entry, raised, intent_data, intent_reply, runs >>

\* a Doctor stage that hands over to the Budget stage
DoctorStageSkipsChef ==
    /\ pc = "doctor"
    /\ calls' = Append(calls, "Doctor")
    /\ pc' = "budget"
    /\ wf' = [wf EXCEPT !.analysis_reply = None]
    /\ UNCHANGED << call, users, chat_context, user_info, pending_plan,
                    total_budget, plan_duration,
                    feedback_mode, live_chat, agent_memory, current_strategy,
                    diet_plans, entry, raised, intent_data, intent_reply,
                    runs >>

\* line 578: the Doctor stage
DoctorStage ==
    /\ pc = "doctor"
    /\ calls' = Append(calls, "Doctor")
    /\ \E ok \in BOOLEAN :
          IF ok
          THEN /\ pc' = "chef"
               /\ wf' = [wf EXCEPT !.analysis_reply = None]
               /\ UNCHANGED << call, users, chat_context, user_info,
                               pending_plan, total_budget, plan_duration,
                               feedback_mode, live_chat, agent_memory,
                               current_strategy, diet_plans, entry, raised,
                               intent_data, intent_reply, runs >>
          ELSE WorkflowRaises("GenerationError")

\* lines 584-591: building the Chef prompt subscripts the analysis and, for
\* a truthy cost_target, divides it by duration
PromptError(request_analysis, duration) ==
    IF request_analysis.kind # "dict" THEN "TypeError"
    ELSE IF Truthy(request_analysis.d.cost_target) /\ duration = 0
    THEN "ZeroDivisionError"
    ELSE "none"

\* line 674: the Chef stage
ChefStage ==
    /\ pc = "chef"
    /\ IF PromptError(wf.request_analysis, wf.duration) # "none"
       THEN /\ WorkflowRaises(PromptError(wf.request_analysis, wf.duration))
            /\ UNCHANGED calls
       ELSE /\ calls' = Append(calls, "Chef")
            /\ \E ok \in BOOLEAN :
                  IF ok
                  THEN /\ pc' = "budget"
                       /\ UNCHANGED << call, users, chat_context, user_info,
                                       pending_plan, total_budget,
                                       plan_duration, feedback_mode, live_chat,
                                       agent_memory, current_strategy, diet_plans,
                                       entry, wf, raised, intent_data,
                                       intent_reply, runs >>
                  ELSE WorkflowRaises("GenerationError")

\* line 802: the Planner & Budget stage
BudgetStage ==
    /\ pc = "budget"
    /\ calls' = Append(calls, "Budget")
    /\ \/ \E text \in PlanTexts :
             /\ pc' = "loop"
             /\ wf' = [wf EXCEPT !.plan_text = text, !.attempt = 0]
             /\ UNCHANGED << call, users, chat_context, user_info,
                             pending_plan, total_budget, plan_duration,
                             feedback_mode, live_chat, agent_memory,
                             current_strategy, diet_plans, entry, raised,
                             intent_data, intent_reply, runs >>
       \/ WorkflowRaises("GenerationError")

\* a range that leaves out its end points
WithinToleranceStrict(gap) == Abs(gap) < CAL_TOLERANCE

\* line 814: the acceptable range
WithinTolerance(gap) == Abs(gap) <= CAL_TOLERANCE

\* a loop that counts one attempt too many
NeedsCorrectionOneMore(attempt, plan_text, target_cals) ==
    /\ attempt <= MAX_RETRIES
    /\ ~WithinTolerance(target_cals - extract_calories(plan_text))

\* lines 809-815: the loop body runs a correction when an attempt is left
\* and the extracted calories miss the target
NeedsCorrection(attempt, plan_text, target_cals) ==
    /\ attempt < MAX_RETRIES
    /\ ~WithinTolerance(target_cals - extract_calories(plan_text))

\* lines 817-839: one Calorie Correction call
CorrectionStage ==
    /\ pc = "loop"
    /\ NeedsCorrection(wf.attempt, wf.plan_text, wf.target_cals)
    /\ calls' = Append(calls, "Correction")
    /\ \/ \E text \in CorrectionTexts :
             /\ wf' = [wf EXCEPT !.plan_text = text, !.attempt = wf.attempt + 1,
                                 !.last_correction = Some(text)]
             /\ UNCHANGED << call, users, chat_context, user_info,
                             pending_plan, total_budget, plan_duration,
                             feedback_mode, live_chat, agent_memory,
                             current_strategy, diet_plans, pc, entry, raised,
                             intent_data, intent_reply, runs >>
       \/ WorkflowRaises("GenerationError")

\* callers that keep a plan that is already pending
CallerStoresKeepsPending(final_plan, cost) ==
    /\ pending_plan' = IF IsSet(pending_plan) THEN pending_plan ELSE Some(final_plan)
    /\ total_budget' = Some(cost)
    /\ plan_duration' =
          IF entry = "feedback" THEN plan_duration ELSE Some(wf.duration)
    /\ feedback_mode' = IF entry = "answer" THEN feedback_mode ELSE FALSE
    /\ live_chat' =
          CASE entry = "create" -> Append(live_chat, Assistant("created"))
            [] entry = "answer" ->
                  live_chat \o << Assistant("generated"), Assistant("need_number") >>
            [] entry = "regenerate" -> Append(live_chat, Assistant("regenerated"))
            [] OTHER -> live_chat
    /\ raised' = IF entry = "answer" THEN "TypeError" ELSE "none"

\* callers that leave feedback mode as it is
CallerStoresStaysInFeedback(final_plan, cost) ==
    /\ pending_plan' = Some(final_plan)
    /\ total_budget' = Some(cost)
    /\ plan_duration' =
          IF entry = "feedback" THEN plan_duration ELSE Some(wf.duration)
    /\ feedback_mode' = feedback_mode
    /\ live_chat' =
          CASE entry = "create" -> Append(live_chat, Assistant("created"))
            [] entry = "answer" ->
                  live_chat \o << Assistant("generated"), Assistant("need_number") >>
            [] entry = "regenerate" -> Append(live_chat, Assistant("regenerated"))
            [] OTHER -> live_chat
    /\ raised' = IF entry = "answer" THEN "TypeError" ELSE "none"

\* what each caller does with (final_plan, cost) once the workflow returned
CallerStores(final_plan, cost) ==
    /\ pending_plan' = Some(final_plan)
    /\ total_budget' = Some(cost)
    /\ plan_duration' =
          IF entry = "feedback" THEN plan_duration ELSE Some(wf.duration)
    /\ feedback_mode' = IF entry = "answer" THEN feedback_mode ELSE FALSE
    /\ live_chat' =
          CASE entry = "create" -> Append(live_chat, Assistant("created"))
            [] entry = "answer" ->
                  live_chat \o << Assistant("generated"), Assistant("need_number") >>
            [] entry = "regenerate" -> Append(live_chat, Assistant("regenerated"))
            [] OTHER -> live_chat
    /\ raised' = IF entry = "answer" THEN "TypeError" ELSE "none"

\* lines 842-926 and the caller's tail: cost of the plan text, the Manager
\* stage, the final cost extraction, the session writes, the return
ManagerStage ==
    /\ pc = "loop"
    /\ ~NeedsCorrection(wf.attempt, wf.plan_text, wf.target_cals)
    /\ calls' = Append(calls, "Manager")
    /\ \/ \E final_output \in ManagerTexts :
             LET final_cost == budget_cost(wf.plan_text)
                 extracted_cost == final_extracted_cost(final_output, wf.plan_text)
             IN  /\ current_strategy' = Some(final_output)
                 /\ agent_memory' = [agent_memory EXCEPT
                                        !.meal_plan = Some(final_output),
                                        !.plan_duration = Some(wf.duration),
                                        !.total_budget = Some(extracted_cost)]
                 /\ CallerStores(final_output, final_cost)
                 /\ wf' = [wf EXCEPT !.manager_in = Some(wf.plan_text),
                                     !.final_output = Some(final_output),
                                     !.final_cost = Some(final_cost),
                                     !.extracted_cost = Some(extracted_cost)]
                 /\ pc' = "end"
                 /\ UNCHANGED << call, users, chat_context, user_info,
                                 diet_plans, entry, intent_data,
                                 intent_reply, runs >>
       \/ WorkflowRaises("GenerationError")

(***************************************************************************)
(* Handlers of the script                                                  *)
(***************************************************************************)
\* a script run that issues generation calls starts
FreshRun ==
    /\ runs < MaxRuns
    /\ runs' = runs + 1

\* lines 1198-1215: the Forecast Plan button.  The duration input is only
\* rendered outside feedback mode (line 1171); otherwise cdays keeps the
\* value of line 1046
ForecastPlan ==
    /\ pc = "idle"
    /\ \E cdays \in (IF feedback_mode THEN {0} ELSE ForecastDays) :
          StartWorkflow("forecast", cdays, user_info.meals_per_day, None, None)
    /\ FreshRun
    /\ UNCHANGED << call, users, chat_context, user_info, pending_plan,
                    total_budget, plan_duration,
                    feedback_mode, live_chat, agent_memory, current_strategy,
                    diet_plans, calls, raised, intent_data, intent_reply >>

\* lines 1283-1316: the feedback chat input of feedback mode
FeedbackInput ==
    /\ pc = "idle"
    /\ feedback_mode
    /\ StartWorkflow("feedback", Get(plan_duration, 7), user_info.meals_per_day,
                     Some("too expensive"), ParseCost(total_budget))
    /\ FreshRun
    /\ UNCHANGED << call, users, chat_context, user_info, pending_plan,
                    total_budget, plan_duration,
                    feedback_mode, live_chat, agent_memory, current_strategy,
                    diet_plans, calls, raised, intent_data, intent_reply >>

\* dict.get(key): None for a missing key
DictGet(d, key) == IF key \in DOMAIN d THEN d[key] ELSE JNull

\* a clamp that forgets the lower end
ClampDurationUpperOnly(duration) == IF duration > 7 THEN 7 ELSE duration

\* lines 1353-1357 and 1388-1389
ClampDuration(duration) ==
    IF duration > 7 THEN 7 ELSE IF duration < 1 THEN 1 ELSE duration

\* a routing that regenerates whether or not a plan is pending
BranchIgnoresPending(data, has_pending_plan) ==
    IF data.kind # "dict" THEN "AttributeError"
    ELSE LET intent == DictGet(data.d, "intent")
             duration == DictGet(data.d, "duration")
         IN  IF intent = JStr("CREATE_PLAN")
             THEN (IF Truthy(duration) THEN "create" ELSE "ask_days")
             ELSE IF intent = JStr("ANSWER_DURATION")
             THEN (IF Truthy(duration) THEN "answer" ELSE "need_number")
             ELSE IF intent = JStr("REGENERATE_PLAN") THEN "regenerate"
             ELSE IF intent = JStr("GENERAL_QUESTION") THEN "general"
             ELSE "none"

\* a routing that hands an answer without a number to the chat
BranchAsksTheChat(data, has_pending_plan) ==
    IF data.kind # "dict" THEN "AttributeError"
    ELSE LET intent == DictGet(data.d, "intent")
             duration == DictGet(data.d, "duration")
         IN  IF intent = JStr("CREATE_PLAN")
             THEN (IF Truthy(duration) THEN "create" ELSE "ask_days")
             ELSE IF intent = JStr("ANSWER_DURATION")
             THEN (IF Truthy(duration) THEN "answer" ELSE "general")
             ELSE IF intent = JStr("REGENERATE_PLAN")
             THEN (IF has_pending_plan THEN "regenerate" ELSE "general")
             ELSE IF intent = JStr("GENERAL_QUESTION") THEN "general"
             ELSE "none"

\* lines 1344-1453: the branch a classification result selects
Branch(data, has_pending_plan) ==
    IF data.kind # "dict" THEN "AttributeError"
    ELSE LET intent == DictGet(data.d, "intent")
             duration == DictGet(data.d, "duration")
         IN  IF intent = JStr("CREATE_PLAN")
             THEN (IF Truthy(duration) THEN "create" ELSE "ask_days")
             ELSE IF intent = JStr("ANSWER_DURATION")
             THEN (IF Truthy(duration) THEN "answer" ELSE "need_number")
             ELSE IF intent = JStr("REGENERATE_PLAN")
             THEN (IF has_pending_plan THEN "regenerate" ELSE "general")
             ELSE IF intent = JStr("GENERAL_QUESTION") THEN "general"
             ELSE "none"

\* feedback_text or user_msg (line 1435)
\* a feedback argument that forgets the user's message
FeedbackOrNothing(feedback_text) ==
    IF Truthy(feedback_text) THEN Some(feedback_text.v) ELSE None

FeedbackOrMessage(feedback_text) ==
    IF Truthy(feedback_text) THEN Some(feedback_text.v) ELSE Some(UserMsg.content)

\* lines 1334-1526: the smart chat input outside feedback mode
ChatInput ==
    /\ pc = "idle"
    /\ ~feedback_mode
    /\ FreshRun
    /\ \E reply \in IntentReplies, chat_ok \in BOOLEAN :
          LET log == Append(live_chat, UserMsg)
              data == detect_user_intent(reply)
              branch == Branch(data, ~IsNone(pending_plan))
              duration == DictGet(data.d, "duration")
              user_context == [meal_plan |-> agent_memory.meal_plan]
          IN  /\ intent_data' = Some(data)
              /\ intent_reply' = Some(reply)
              /\ calls' = IF branch = "general" THEN << "Intent", "Chat" >>
                          ELSE << "Intent" >>
              /\ IF branch \in {"create", "answer", "regenerate"}
                 THEN /\ raised' = "none"
                      /\ live_chat' =
                            IF branch = "create" /\ duration.v > 7
                            THEN Append(log, Assistant("limit7")) ELSE log
                      /\ IF branch = "regenerate"
                         THEN StartWorkflow("regenerate", Get(plan_duration, 7),
                                  user_info.meals_per_day,
                                  FeedbackOrMessage(DictGet(data.d, "feedback")),
                                  ParseCost(total_budget))
                         ELSE StartWorkflow(branch, ClampDuration(duration.v),
                                  IF Truthy(DictGet(data.d, "meals_per_day"))
                                      /\ branch = "create"
                                  THEN DictGet(data.d, "meals_per_day").v
                                  ELSE user_info.meals_per_day,
                                  None, None)
                 ELSE /\ pc' = "end"
                      /\ UNCHANGED << entry, wf >>
                      /\ live_chat' =
                            CASE branch = "ask_days" ->
                                    Append(log, Assistant("ask_days"))
                              [] branch = "need_number" ->
                                    Append(log, Assistant("need_number"))
                              [] branch = "general" /\ chat_ok ->
                                    Append(log, Assistant("bot_reply"))
                              [] OTHER -> log
                      /\ raised' =
                            CASE branch = "AttributeError" -> "AttributeError"
                              [] branch = "need_number" -> "TypeError"
                              [] branch = "general" /\ ~chat_ok -> "GenerationError"
                              [] OTHER -> "none"
              /\ chat_context' =
                    IF branch = "general" THEN Some(user_context) ELSE None
    /\ UNCHANGED << call, users, user_info, pending_plan, total_budget,
                    plan_duration, feedback_mode, agent_memory, current_strategy,
                    diet_plans >>

\* lines 101-106
save_diet_plan(email, plan_text, status) ==
    Append(diet_plans, [email |-> email, plan_text |-> plan_text, status |-> status,
                        feedback |-> None])

\* if st.session_state['pending_plan']: a non-empty text (line 1222)
PlanDisplayed == IsSet(pending_plan) /\ pending_plan.v # << >>

\* an approval that leaves the plan pending
ApproveKeepsPending ==
    /\ pc = "idle"
    /\ PlanDisplayed
    /\ ~feedback_mode
    /\ Len(diet_plans) < MaxHistory
    /\ diet_plans' = save_diet_plan(user_info.email, pending_plan.v, "approved")
    /\ UNCHANGED << call, users, chat_context, user_info, pending_plan,
                    total_budget, plan_duration,
                    feedback_mode, live_chat, agent_memory, current_strategy, pc,
                    entry, wf, calls, raised, intent_data, intent_reply, runs >>

\* an approval offered in feedback mode too
ApproveInAnyMode ==
    /\ pc = "idle"
    /\ PlanDisplayed
    /\ Len(diet_plans) < MaxHistory
    /\ diet_plans' = save_diet_plan(user_info.email, pending_plan.v, "approved")
    /\ pending_plan' = None
    /\ UNCHANGED << call, users, chat_context, user_info, total_budget,
                    plan_duration, feedback_mode, live_chat,
                    agent_memory, current_strategy, pc, entry, wf, calls, raised,
                    intent_data, intent_reply, runs >>

\* lines 1263-1268: Approve & Save Plan
Approve ==
    /\ pc = "idle"
    /\ PlanDisplayed
    /\ ~feedback_mode
    /\ Len(diet_plans) < MaxHistory
    /\ diet_plans' = save_diet_plan(user_info.email, pending_plan.v, "approved")
    /\ pending_plan' = None
    /\ UNCHANGED << call, users, chat_context, user_info, total_budget,
                    plan_duration, feedback_mode, live_chat,
                    agent_memory, current_strategy, pc, entry, wf, calls, raised,
                    intent_data, intent_reply, runs >>

\* a rejection that drops the rejected plan
RejectDropsPlan ==
    /\ pc = "idle"
    /\ PlanDisplayed
    /\ ~feedback_mode
    /\ feedback_mode' = TRUE
    /\ pending_plan' = None
    /\ UNCHANGED << call, users, chat_context, user_info, total_budget,
                    plan_duration, live_chat,
                    agent_memory, current_strategy, diet_plans, pc, entry, wf, calls,
                    raised, intent_data, intent_reply, runs >>

\* a rejection that records the rejected plan
RejectStoresPlan ==
    /\ pc = "idle"
    /\ PlanDisplayed
    /\ ~feedback_mode
    /\ Len(diet_plans) < MaxHistory
    /\ feedback_mode' = TRUE
    /\ diet_plans' = save_diet_plan(user_info.email, pending_plan.v, "rejected")
    /\ UNCHANGED << call, users, chat_context, user_info, pending_plan,
                    total_budget, plan_duration, live_chat,
                    agent_memory, current_strategy, pc, entry, wf, calls,
                    raised, intent_data, intent_reply, runs >>

\* lines 1277-1279: Reject & Refine
Reject ==
    /\ pc = "idle"
    /\ PlanDisplayed
    /\ ~feedback_mode
    /\ feedback_mode' = TRUE
    /\ UNCHANGED << call, users, chat_context, user_info, pending_plan,
                    total_budget, plan_duration, live_chat,
                    agent_memory, current_strategy, diet_plans, pc, entry, wf, calls,
                    raised, intent_data, intent_reply, runs >>

\* lines 108-113: the approved plans of a user
get_approved_plans(email) ==
    SelectSeq(diet_plans, LAMBDA row : row.email = email /\ row.status = "approved")

\* lines 1142-1148: a button of Your Diet History
LoadHistory ==
    /\ pc = "idle"
    /\ \E i \in 1..Len(get_approved_plans(user_info.email)) :
          pending_plan' = Some(get_approved_plans(user_info.email)[i].plan_text)
    /\ UNCHANGED << call, users, chat_context, user_info, total_budget,
                    plan_duration, feedback_mode, live_chat,
                    agent_memory, current_strategy, diet_plans, pc, entry, wf, calls,
                    raised, intent_data, intent_reply, runs >>

\* the script run is over: its locals are gone, the session state stays
ScriptEnd ==
    /\ pc = "end"
    /\ pc' = "idle"
    /\ entry' = "none"
    /\ wf' = NoWorkflow
    /\ calls' = << >>
    /\ raised' = "none"
    /\ intent_data' = None
    /\ intent_reply' = None
    /\ chat_context' = None
    /\ UNCHANGED << call, users, user_info, pending_plan, total_budget,
                    plan_duration,
                    feedback_mode, live_chat, agent_memory, current_strategy,
                    diet_plans, runs >>

Next ==
    \/ ForecastPlan
    \/ FeedbackInput
    \/ ChatInput
    \/ Approve
    \/ Reject
    \/ LoadHistory
    \/ AnalysisStage
    \/ DoctorStage
    \/ ChefStage
    \/ BudgetStage
    \/ CorrectionStage
    \/ ManagerStage
    \/ ScriptEnd

Spec == Init /\ [][Next]_vars

(***************************************************************************)
(* The helper functions on their own.  A call holds the function's name    *)
(* and arguments; its action computes the value the function returns.      *)
(***************************************************************************)
\* the longest text drawn as an argument, in tokens
MaxTokens == 2

\* the most "1800 kcal" mentions appended to a text
MaxMentions == 4

\* every text of at most n tokens
Texts(tokens, n) == UNION { [1..k -> tokens] : k \in 0..n }

Repeat(tok, n) == [i \in 1..n |-> tok]

\* runs of digits and commas a cost phrase may carry: "1,500", ","
CostRuns == { << "1", ",", "5", "0", "0" >>, << "," >> }

CostKinds ==
    { "cost_closed", "cost_closed_lc", "cost_open", "cost_label",
      "total_cost_nl", "total_colon", "rupee" }

CostTokens ==
    { Tok(k, d) : k \in CostKinds, d \in CostRuns } \cup { Tok("word", << >>) }

\* runs a calorie phrase may carry: "400", "10500", "1,800"
KcalRuns ==
    { << "4", "0", "0" >>, << "1", "0", "5", "0", "0" >>,
      << "1", ",", "8", "0", "0" >> }

KcalKinds == { "total_kcal", "hash_total", "total_calories", "meal_kcal", "kcal" }

KcalTokens ==
    { Tok(k, d) : k \in KcalKinds, d \in KcalRuns } \cup { Tok("word", << >>) }

\* plan texts: a short text followed by some mentions of "1800 kcal"
KcalTexts ==
    { t \o Repeat(Tok("kcal", << "1", "8", "0", "0" >>), n) :
        t \in Texts(KcalTokens, MaxTokens), n \in 0..MaxMentions }

Weights == { 45, 70, 110 }
Heights == { 150, 175, 190 }
Ages == { 18, 25, 60 }
Genders == { "Male", "Female", "Other" }
Activities == { "Sedentary", "Active", "Very Active", "Athlete" }

\* Budget-stage texts searched after the Manager's output: no cost phrase,
\* "### TOTAL_COST: 1,500 ###", "### TOTAL_COST: , ###", "₹900"
BudgetTexts ==
    { << >>,
      << Tok("cost_closed", << "1", ",", "5", "0", "0" >>) >>,
      << Tok("cost_closed", << "," >>) >>,
      << Tok("rupee", << "9", "0", "0" >>) >> }

\* sign-up forms: the two profiles under either email, two passwords
SignUps == { [p EXCEPT !.email = e] : p \in Profiles, e \in { "a@x.io", "b@x.io" } }
Passwords == { "pw1", "pw2" }

\* users tables: at most one row for an email
UserTables ==
    { t \in SUBSET { UserRow(info, pw) : info \in SignUps, pw \in Passwords } :
        \A r1, r2 \in t : r1.email = r2.email => r1 = r2 }

\* food texts: any mix of one keyword of each category, or one of the
\* other keywords alone
FoodTexts ==
    (SUBSET { "mutton", "chicken", "paneer", "egg", "fish", "dal", "salad", "rice" })
    \cup { { k } : k \in { "lamb", "beef", "cheese", "butter", "lentil", "beans",
                          "vegetable", "sabzi", "roti", "chapati" } }

Call(fn, args) == [fn |-> fn, args |-> args, ret |-> None]

FnCalls ==
    { Call("final_cost", << final_output, plan_text >>) :
        final_output \in Texts(CostTokens, MaxTokens),
        plan_text \in BudgetTexts }
    \cup { Call("extract_calories", << Some(t) >>) : t \in KcalTexts }
    \cup { Call("extract_calories", << None >>) }
    \cup { Call("calculate_needs", << w, h, a, g, act >>) :
             w \in Weights, h \in Heights, a \in Ages, g \in Genders,
             act \in Activities }
    \cup { Call("add_user", << info, pw >>) : info \in SignUps, pw \in Passwords }
    \cup { Call("estimate_food_carbon", << t >>) : t \in FoodTexts }

FnInit ==
    /\ user_info \in Profiles
    /\ pending_plan = None
    /\ total_budget = Unset
    /\ plan_duration = Unset
    /\ feedback_mode = FALSE
    /\ live_chat = << >>
    /\ agent_memory = [meal_plan |-> None, plan_duration |-> None, total_budget |-> None]
    /\ current_strategy = Unset
    /\ diet_plans = << >>
    /\ pc = "idle"
    /\ entry = "none"
    /\ wf = NoWorkflow
    /\ calls = << >>
    /\ raised = "none"
    /\ intent_data = None
    /\ intent_reply = None
    /\ runs = 0
    /\ call \in FnCalls
    /\ users \in (IF call.fn = "add_user" THEN UserTables ELSE { {} })
    /\ chat_context = None

Returns(value) ==
    /\ IsNone(call.ret)
    /\ call' = [call EXCEPT !.ret = Some(value)]
    /\ UNCHANGED << users, user_info, pending_plan, total_budget, plan_duration,
                    feedback_mode, live_chat, agent_memory, current_strategy,
                    diet_plans, pc, entry, wf, calls, raised, intent_data,
                    intent_reply, runs, chat_context >>

\* lines 887-916: the cost the run stores, from the Manager's output first
ExtractFinalCost ==
    /\ call.fn = "final_cost"
    /\ Returns(final_extracted_cost(call.args[1], call.args[2]))

\* lines 259-260: nothing, or no string, gives 0
ExtractCalories ==
    /\ call.fn = "extract_calories"
    /\ Returns(IF IsNone(call.args[1]) THEN 0 ELSE extract_calories(call.args[1].v))

CalculateNeeds ==
    /\ call.fn = "calculate_needs"
    /\ Returns(calculate_needs(call.args[1], call.args[2], call.args[3],
                               call.args[4], call.args[5]))

\* lines 1095-1104: the Sign Up button calls add_user
AddUser ==
    /\ call.fn = "add_user"
    /\ IsNone(call.ret)
    /\ LET res == add_user(users, call.args[1], call.args[2])
       IN  /\ call' = [call EXCEPT !.ret = Some(res.ok)]
           /\ users' = res.table
    /\ UNCHANGED << user_info, pending_plan, total_budget, plan_duration,
                    feedback_mode, live_chat, agent_memory, current_strategy,
                    diet_plans, pc, entry, wf, calls, raised, intent_data,
                    intent_reply, runs, chat_context >>

EstimateFoodCarbon ==
    /\ call.fn = "estimate_food_carbon"
    /\ Returns(estimate_food_carbon(call.args[1]))

FnNext ==
    \/ AddUser
    \/ EstimateFoodCarbon
    \/ ExtractFinalCost
    \/ ExtractCalories
    \/ CalculateNeeds

FnSpec == FnInit /\ [][FnNext]_vars

(***************************************************************************)
(* Properties                                                              *)
(***************************************************************************)
NumCalls(name) == Cardinality({i \in 1..Len(calls) : calls[i] = name})

\* the calls of the running workflow: the script's calls without the
\* classification that preceded them
WorkflowCalls ==
    IF Len(calls) > 0 /\ calls[1] = "Intent" THEN Tail(calls) ELSE calls

Completed == pc = "end" /\ entry # "none" /\ ~wf.failed

Misses(text) == Abs(wf.target_cals - extract_calories(text)) > CAL_TOLERANCE

\* C1: the correction loop issues at most MAX_RETRIES = 5 correction calls
\* per run and then leaves the loop; when the text handed to the Manager
\* still misses the tolerance (so every text before it missed too), exactly
\* 5 correction calls were issued and that text is the 5th correction's output
C1_LoopBounded ==
    /\ NumCalls("Correction") <= MAX_RETRIES
    /\ pc = "loop" =>
          /\ wf.attempt = NumCalls("Correction")
          /\ wf.attempt = MAX_RETRIES =>
                ~NeedsCorrection(wf.attempt, wf.plan_text, wf.target_cals)
    /\ (Completed /\ Misses(wf.manager_in.v)) =>
          /\ NumCalls("Correction") = 5
          /\ wf.attempt = 5
          /\ wf.manager_in = wf.last_correction

C1_Exhausted ==
    /\ Completed
    /\ Misses(wf.manager_in.v)
    /\ NumCalls("Correction") = 5
    /\ wf.manager_in = wf.last_correction

\* C2: in an iteration of the correction loop the next call is a correction
\* if and only if the current text is more than 25 kcal off the target;
\* otherwise the loop is left and the next call is the Manager's
C2_CorrectionIffOutside ==
    [][(pc = "loop" /\ wf.attempt < MAX_RETRIES) =>
          LET gap == wf.target_cals - extract_calories(wf.plan_text)
          IN  /\ Abs(gap) > 25 => calls' = Append(calls, "Correction")
              /\ Abs(gap) <= 25 => calls' = Append(calls, "Manager")]_vars

\* a run whose Budget text was off, whose first correction landed exactly
\* 25 kcal from the target, and which then went on to the Manager
C2_StopsOnBoundary ==
    /\ Completed
    /\ NumCalls("Correction") = 1
    /\ Abs(wf.target_cals - extract_calories(wf.manager_in.v)) = 25

\* C3: the calls of a workflow run follow the order Analysis (if any),
\* Doctor, Chef, Budget, Correction*, Manager, each call directly after its
\* predecessor stage; the directive exists before the Doctor is called; a
\* completed run called Doctor, Chef, Budget and Manager exactly once
C3_StageOrder ==
    entry # "none" =>
        LET w == WorkflowCalls
        IN  /\ \A i \in 1..Len(w) :
                  CASE w[i] = "Analysis" -> i = 1
                    [] w[i] = "Doctor" -> i = 1 \/ w[i - 1] = "Analysis"
                    [] w[i] = "Chef" -> i > 1 /\ w[i - 1] = "Doctor"
                    [] w[i] = "Budget" -> i > 1 /\ w[i - 1] = "Chef"
                    [] w[i] = "Correction" ->
                          i > 1 /\ w[i - 1] \in {"Budget", "Correction"}
                    [] w[i] = "Manager" ->
                          i > 1 /\ w[i - 1] \in {"Budget", "Correction"}
                    [] OTHER -> FALSE
            /\ NumCalls("Doctor") > 0 => wf.request_analysis # None
            /\ Completed =>
                  /\ \A stage \in {"Doctor", "Chef", "Budget", "Manager"} :
                        NumCalls(stage) = 1
                  /\ w[Len(w)] = "Manager"

C3_FullRun ==
    /\ Completed
    /\ calls = << "Intent", "Analysis", "Doctor", "Chef", "Budget", "Correction",
                  "Correction", "Manager" >>

\* C4: when a stage of the workflow fails, the run raises, no later stage
\* is called, and pending plan, total budget, plan duration, feedback mode
\* and the aggregate memory hold what they held before the run
C4_FailureWritesNothing ==
    (pc = "end" /\ wf.failed) =>
        /\ wf.error # "none"
        /\ IsNone(wf.final_output)
        /\ pending_plan = wf.before.v.pending_plan
        /\ total_budget = wf.before.v.total_budget
        /\ plan_duration = wf.before.v.plan_duration
        /\ feedback_mode = wf.before.v.feedback_mode
        /\ agent_memory = wf.before.v.agent_memory

\* the Correction call fails in a session that already holds a plan
C4_FailedAfterPlan ==
    /\ pc = "end"
    /\ wf.failed
    /\ calls[Len(calls)] = "Correction"
    /\ IsSet(pending_plan)
    /\ IsSet(total_budget)
    /\ IsSet(agent_memory.meal_plan)

\* C5: in every entry point a failed workflow run leaves the script as the
\* workflow's own failure, and the chat does not end with the question for a
\* number of days
C5_FailureSurfaces ==
    (pc = "end" /\ wf.failed) =>
        /\ raised = wf.error
        /\ entry \in {"create", "answer", "regenerate"} =>
              live_chat[Len(live_chat)] # Assistant("need_number")

HasIntentField(reply) == reply.kind = "object" /\ "intent" \in DOMAIN reply.obj

\* C6: whenever the classification call raises, its reply is no JSON, or the
\* decoded reply has no "intent" field, detect_user_intent returns
\* GENERAL_QUESTION with confidence 0.5 and null duration, meals_per_day
\* and feedback
C6_FallbackOnBadReply ==
    (IsSet(intent_reply) /\ ~HasIntentField(intent_reply.v)) =>
        /\ intent_data.v.kind = "dict"
        /\ intent_data.v.d.intent = JStr("GENERAL_QUESTION")
        /\ intent_data.v.d.confidence = "0.5"
        /\ intent_data.v.d.duration = JNull
        /\ intent_data.v.d.meals_per_day = JNull
        /\ intent_data.v.d.feedback = JNull

\* C7: the intent of every classification result that is routed is one of
\* CREATE_PLAN, REGENERATE_PLAN, ANSWER_DURATION, GENERAL_QUESTION
C7_IntentInFixedSet ==
    (IsSet(intent_data) /\ intent_data.v.kind = "dict") =>
        DictGet(intent_data.v.d, "intent") \in
            {JStr("CREATE_PLAN"), JStr("REGENERATE_PLAN"),
             JStr("ANSWER_DURATION"), JStr("GENERAL_QUESTION")}

IsDefaultDirective(val) ==
    /\ val.kind = "dict"
    /\ val.d.cost_target = JNull
    /\ val.d.cost_adjustment = "maintain"
    /\ val.d.items_to_avoid = << >>
    /\ val.d.items_to_include = << >>
    /\ val.d.preferences = << >>
    /\ val.d.constraints = << >>

\* C8: with absent or empty feedback analyze_user_request returns the
\* default directive whatever the backend would reply and issues no call; a
\* run started without feedback carries the default directive and has made
\* no analysis call
C8_NoFeedbackNoCall ==
    /\ \A user_feedback \in {None, Some("")}, reply \in AnalysisReplies :
          /\ IsDefaultDirective(analyze_user_request(user_feedback, reply).result)
          /\ ~analyze_user_request(user_feedback, reply).called
    /\ (entry # "none" /\ pc # "analysis" /\ IsNone(wf.feedback)) =>
          /\ IsDefaultDirective(wf.request_analysis)
          /\ NumCalls("Analysis") = 0

C8_FreshRunCompleted ==
    /\ Completed
    /\ entry = "forecast"
    /\ IsNone(wf.feedback)
    /\ calls[1] = "Doctor"

IsFieldName(f) == \E i \in 1..Len(required_fields) : required_fields[i] = f

\* C9: with feedback, analyze_user_request returns a directive holding all
\* seven fields: the default directive with the error as reasoning when the
\* call raises or the reply is no JSON object, and otherwise the fields of
\* the reply with every missing one set to its default
C9_DirectiveForEveryReply ==
    (entry # "none" /\ IsSet(wf.analysis_reply)) =>
        LET reply == wf.analysis_reply.v
            res == wf.request_analysis
            decodable == reply.kind = "object"
                            /\ (reply.wrapped => "cost_target" \in DOMAIN reply.obj)
        IN  /\ res.kind = "dict"
            /\ \A f \in DOMAIN res.d : IsFieldName(f)
            /\ \A i \in 1..Len(required_fields) : required_fields[i] \in DOMAIN res.d
            /\ reply.kind \in {"raise", "text"} =>
                  /\ IsDefaultDirective(res)
                  /\ res.d.reasoning = "Error analyzing request"
            /\ decodable =>
                  \A f \in DOMAIN res.d :
                      res.d[f] = IF f \in DOMAIN reply.obj THEN reply.obj[f]
                                 ELSE FieldDefault(f)

\* C10: a message classified REGENERATE_PLAN while no plan is pending takes
\* the branch of GENERAL_QUESTION: no workflow is started, pending plan,
\* budget and duration stay, the calls are the classification and one chat
\* generation call, and the reply of that call is appended to the log
C10_RegenerateWithoutPlan ==
    [][(/\ pc = "idle"
        /\ IsSet(intent_data')
        /\ intent_data'.v.kind = "dict"
        /\ DictGet(intent_data'.v.d, "intent") = JStr("REGENERATE_PLAN")
        /\ IsNone(pending_plan)) =>
          /\ Branch(intent_data'.v, FALSE)
                = Branch(detect_user_intent(
                            IntentObject(JStr("GENERAL_QUESTION"), JNull, JNull)),
                         FALSE)
          /\ pc' = "end"
          /\ entry' = "none"
          /\ wf' = NoWorkflow
          /\ UNCHANGED << pending_plan, total_budget, plan_duration >>
          /\ calls' = << "Intent", "Chat" >>
          /\ \/ /\ raised' = "none"
                /\ live_chat' = live_chat \o << UserMsg, Assistant("bot_reply") >>
             \/ /\ raised' = "GenerationError"
                /\ live_chat' = Append(live_chat, UserMsg)]_vars

C10_AnsweredAsQuestion ==
    /\ pc = "end"
    /\ IsSet(intent_data)
    /\ intent_data.v.kind = "dict"
    /\ DictGet(intent_data.v.d, "intent") = JStr("REGENERATE_PLAN")
    /\ IsNone(pending_plan)
    /\ calls = << "Intent", "Chat" >>
    /\ live_chat[Len(live_chat)] = Assistant("bot_reply")

\* C11: in the CREATE_PLAN and ANSWER_DURATION branches the duration the
\* workflow runs with is in 1..7, 7 for an extracted value above 7 and 1
\* for one below 1, and a completed run stores it as the plan duration
C11_DurationClamped ==
    entry \in {"create", "answer"} =>
        LET extracted == DictGet(intent_data.v.d, "duration").v
        IN  /\ wf.duration \in 1..7
            /\ extracted > 7 => wf.duration = 7
            /\ extracted < 1 => wf.duration = 1
            /\ Completed => plan_duration = Some(wf.duration)

C11_ClampedFromBelow ==
    /\ Completed
    /\ entry = "create"
    /\ DictGet(intent_data.v.d, "duration") = JNum(-2)
    /\ plan_duration = Some(1)

\* C12: after a chat message was routed and no generation call failed, the
\* log ends with the user's message followed by exactly one assistant
\* message
C12_OneReplyPerMessage ==
    (pc = "end" /\ IsSet(intent_data) /\ ~wf.failed /\ raised # "GenerationError") =>
        /\ Len(live_chat) >= 2
        /\ live_chat[Len(live_chat) - 1] = UserMsg
        /\ live_chat[Len(live_chat)].role = "assistant"

\* C13: when a workflow run completes, from whichever entry point, the
\* pending plan is exactly that run's Manager output
C13_PendingReplaced ==
    Completed => pending_plan = wf.final_output

\* a feedback regeneration that replaced a different pending plan
C13_ReplacedOlderPlan ==
    /\ Completed
    /\ entry = "feedback"
    /\ IsSet(wf.before.v.pending_plan)
    /\ wf.before.v.pending_plan # pending_plan
    /\ pending_plan = wf.final_output

\* C14: the plan history grows only by Approve: while a plan is displayed
\* and feedback mode is off, by exactly one record with the pending text,
\* the user's email and status approved, and the pending slot is cleared
C14_ApproveAppendsOne ==
    [][diet_plans' # diet_plans =>
          /\ IsSet(pending_plan)
          /\ pending_plan.v # << >>
          /\ ~feedback_mode
          /\ diet_plans' = Append(diet_plans,
                                  [email |-> user_info.email,
                                   plan_text |-> pending_plan.v,
                                   status |-> "approved", feedback |-> None])
          /\ pending_plan' = None]_vars

\* a generated plan was approved
C14_GeneratedPlanApproved ==
    /\ Len(diet_plans) > 0
    /\ IsSet(current_strategy)
    /\ diet_plans[Len(diet_plans)].plan_text = current_strategy.v
    /\ IsNone(pending_plan)
    /\ ~feedback_mode

\* a step of the history's button: the pending plan becomes a stored plan
HistoryLoaded ==
    /\ pc = "idle"
    /\ \E i \in 1..Len(diet_plans) : pending_plan' = Some(diet_plans[i].plan_text)

\* a step that ends a plan run with its Manager output pending
RunCompleted ==
    /\ pc' = "end"
    /\ ~wf'.failed
    /\ pending_plan' = wf'.final_output

\* C15 (amended): Reject sets feedback mode and leaves pending plan, total
\* budget, plan duration, memory and history as they are; in feedback mode
\* the pending text changes only when a plan run completes or when a plan
\* of the history is loaded
C15_RejectFrame ==
    [][/\ (~feedback_mode /\ feedback_mode') =>
             UNCHANGED << pending_plan, total_budget, plan_duration,
                          agent_memory,
                          diet_plans >>
       /\ (feedback_mode /\ pending_plan' # pending_plan) =>
             RunCompleted \/ HistoryLoaded]_vars

\* C15 as stated: in feedback mode the pending text changes only when a
\* regeneration or a new plan run completes
C15_RejectFrameUntilRun ==
    [][/\ (~feedback_mode /\ feedback_mode') =>
             UNCHANGED << pending_plan, total_budget, plan_duration,
                          agent_memory,
                          diet_plans >>
       /\ (feedback_mode /\ pending_plan' # pending_plan) => RunCompleted]_vars

\* a generated plan was rejected and is still pending
C15_RejectedPlanPending ==
    /\ pc = "idle"
    /\ feedback_mode
    /\ IsSet(current_strategy)
    /\ pending_plan = current_strategy
    /\ IsSet(total_budget)

\* C16: every record of the plan history has status approved and carries
\* no feedback
C16_HistoryApprovedOnly ==
    \A i \in 1..Len(diet_plans) :
        /\ diet_plans[i].status = "approved"
        /\ diet_plans[i].feedback = None

\* a plan was approved, and later a plan was rejected
C16_RejectAfterApprove ==
    /\ Len(diet_plans) > 0
    /\ IsSet(current_strategy)
    /\ diet_plans[Len(diet_plans)].plan_text = current_strategy.v
    /\ feedback_mode
    /\ IsSet(pending_plan)

\* C17: the cost a completed run returns, which the caller stores as total
\* budget, is the cost extracted Manager output first, and equals the
\* total_budget the run wrote into the memory
C17_ReturnedCostIsFinal ==
    Completed =>
        /\ wf.final_cost = wf.extracted_cost
        /\ total_budget = wf.extracted_cost
        /\ total_budget = agent_memory.total_budget

\* a helper call of the given function has returned
Returned(fn) == call.fn = fn /\ IsSet(call.ret)

\* pattern p finds a match in the text that is all digits once the commas
\* are stripped
Yields(p, text) ==
    /\ PatternHit(p, text) # 0
    /\ isdigit(StripCommas(text[PatternHit(p, text)].d))

\* C18: the stored final cost is an all-digit string; it is "0" when no
\* pattern yields an all-digit match in either text; and when a pattern
\* yields one in the Manager's output, the first such pattern's match is
\* the result
C18_CostAllDigits ==
    Returned("final_cost") =>
        LET final_output == call.args[1]
            plan_text == call.args[2]
            cost == call.ret.v
        IN  /\ isdigit(cost)
            /\ (\A p \in 1..NumPatterns :
                    ~Yields(p, final_output) /\ ~Yields(p, plan_text))
                  => cost = << "0" >>
            /\ \A p \in 1..NumPatterns :
                  (/\ Yields(p, final_output)
                   /\ \A q \in 1..(p - 1) : ~Yields(q, final_output))
                  => cost = StripCommas(final_output[PatternHit(p, final_output)].d)

\* the number a calorie phrase writes, thousands separators dropped
MentionValue(tok) == int(StripCommas(tok.d))

\* the values of the phrases of the given kinds, in text order
RECURSIVE Mentions(_, _)
Mentions(text, kinds) ==
    IF Len(text) = 0 THEN << >>
    ELSE (IF text[1].k \in kinds THEN << MentionValue(text[1]) >> ELSE << >>)
            \o Mentions(Tail(text), kinds)

InRange(values) == SelectSeq(values, LAMBDA v : v >= 50 /\ v <= 2000)

\* C19: extract_calories returns a number for every input, and applies
\* its tiers in priority: the value of the first explicit-total pattern
\* that matches; else the sum of the meal-tagged kcal mentions when there
\* is one; else the sum of all kcal mentions within 50..2000 when that sum
\* is at most 6000; else 0
C19_TiersInPriority ==
    (Returned("extract_calories") /\ IsSet(call.args[1])) =>
        LET text == call.args[1].v
            meals == Mentions(text, {"meal_kcal"})
            kcals == InRange(Mentions(text, {"total_kcal", "meal_kcal", "kcal"}))
        IN  /\ call.ret.v \in Int
            /\ call.ret.v =
                 IF \E p \in 1..3 : ExplicitHit(p, text) # 0
                 THEN LET p == CHOOSE q \in 1..3 :
                                 /\ ExplicitHit(q, text) # 0
                                 /\ \A r \in 1..(q - 1) : ExplicitHit(r, text) = 0
                      IN  int(ExplicitGroup(p, text[ExplicitHit(p, text)]))
                 ELSE IF meals # << >> THEN SumSeq(meals)
                 ELSE IF kcals # << >> /\ SumSeq(kcals) <= 6000 THEN SumSeq(kcals)
                 ELSE 0

\* four hundred times (10 w + 6.25 h - 5 a + c) f, with c and f as stated
Energy400(w, h, a, g, act) ==
    (40 * w + 25 * h - 20 * a + 4 * (IF g = "Male" THEN 5 ELSE -161))
      * (IF act = "Active" THEN 155 ELSE IF act = "Very Active" THEN 190 ELSE 120)

\* the value returned is the integer part of the stated product
TruncatesProduct ==
    Returned("calculate_needs") =>
        LET x == Energy400(call.args[1], call.args[2], call.args[3], call.args[4],
                           call.args[5])
            r == call.ret.v
        IN  x >= 0 /\ 400 * r <= x /\ x < 400 * (r + 1)

\* the call of the example: 70 kg, 175 cm, 25 years, Male, Sedentary
ExampleCall ==
    Returned("calculate_needs") /\ call.args = << 70, 175, 25, "Male", "Sedentary" >>

\* C20 (amended): calculate_needs returns the integer part of
\* (10 w + 6.25 h - 5 a + c) f, c = 5 for Male and -161 for every other
\* gender, f = 1.2, 1.55, 1.9 for Sedentary, Active, Very Active and 1.2 for
\* any other activity; the example gives 2008
C20_NeedsFormula ==
    /\ TruncatesProduct
    /\ ExampleCall => call.ret.v = 2008

\* C20 as stated: the same formula, and the example gives 2083
C20_NeedsFormulaExample2083 ==
    /\ TruncatesProduct
    /\ ExampleCall => call.ret.v = 2083

\* the example call has returned
C20_ExampleReturned == ExampleCall /\ call.ret.v = 2008

\* a plan run that has computed its target calories
TargetSet == entry # "none" /\ pc \notin { "idle", "analysis" }

\* the energy need of the logged-in profile
Tdee ==
    calculate_needs(user_info.weight, user_info.height, user_info.age,
                    user_info.gender, user_info.activity)

\* C21: in every plan run the target calories are tdee + 300 for an
\* objective that contains Gain, tdee - 400 for one that contains Loss and
\* tdee otherwise; a profile heavier than its goal weight runs with the
\* objective Weight Loss and so with tdee - 400
C21_TargetFromObjective ==
    TargetSet =>
        /\ wf.target_cals =
              IF InGoal("Gain", wf.goal) THEN Tdee + 300
              ELSE IF InGoal("Loss", wf.goal) THEN Tdee - 400
              ELSE Tdee
        /\ user_info.weight > user_info.goal_weight =>
              wf.goal = "Weight Loss" /\ wf.target_cals = Tdee - 400

\* a run for the profile of 70 kg with goal 65 kg completed with the
\* target 2008 - 400
C21_LossRunCompleted ==
    /\ Completed
    /\ user_info.weight > user_info.goal_weight
    /\ wf.target_cals = 1608

\* the categories in the stated priority order, with their keywords and
\* values in hundredths
StatedCategories ==
    << [keys |-> { "mutton", "lamb", "beef" }, value |-> 250],
       [keys |-> { "chicken" }, value |-> 80],
       [keys |-> { "paneer", "cheese", "butter" }, value |-> 60],
       [keys |-> { "fish" }, value |-> 50],
       [keys |-> { "egg" }, value |-> 40],
       [keys |-> { "rice", "roti", "chapati" }, value |-> 25],
       [keys |-> { "dal", "lentil", "beans" }, value |-> 20],
       [keys |-> { "vegetable", "sabzi", "salad" }, value |-> 15] >>

\* C22: estimate_food_carbon returns the value of the first category, in
\* the order red meat, chicken, dairy, fish, egg, staple grain, legumes,
\* vegetables, that the text mentions, and 0.35 when it mentions none
C22_FirstCategoryWins ==
    Returned("estimate_food_carbon") =>
        LET text == call.args[1]
            hits == { i \in 1..Len(StatedCategories) :
                        StatedCategories[i].keys \cap text # {} }
        IN  call.ret.v =
              IF hits = {} THEN 35
              ELSE StatedCategories[CHOOSE i \in hits : \A j \in hits : i <= j].value

\* C23: the plan text in the context handed to the generation call for a
\* general question is the pending plan whenever a plan is pending, and
\* the latest approved plan when none is pending
C23_ContextPrefersPending ==
    IsSet(chat_context) =>
        LET approved == get_approved_plans(user_info.email)
        IN  /\ PlanDisplayed => chat_context.v.meal_plan = pending_plan
            /\ (~PlanDisplayed /\ approved # << >>) =>
                  chat_context.v.meal_plan = Some(approved[Len(approved)].plan_text)

\* C24: add_user with an email the table holds returns false and leaves
\* the table as it is; with a new email it returns true and adds exactly
\* the row of that account
C24_DuplicateEmailRefused ==
    [][(call.fn = "add_user" /\ IsNone(call.ret) /\ IsSet(call'.ret)) =>
          LET info == call.args[1]
              taken == \E row \in users : row.email = info.email
          IN  /\ call'.ret.v \in BOOLEAN
              /\ taken => (call'.ret.v = FALSE /\ users' = users)
              /\ ~taken =>
                    /\ call'.ret.v = TRUE
                    /\ users' = users \cup
                          { [email |-> info.email,
                             password |-> make_hashes(call.args[2]),
                             info |-> info] }
                    /\ Cardinality(users') = Cardinality(users) + 1]_vars

\* a sign-up with the email of an account that has another profile and
\* another password was refused
C24_DuplicateRefused ==
    /\ Returned("add_user")
    /\ call.ret.v = FALSE
    /\ \E row \in users :
          /\ row.email = call.args[1].email
          /\ row.info # call.args[1]
          /\ row.password # make_hashes(call.args[2])

\* the classification names the intent and extracted no duration
NoDuration(data, intent) ==
    /\ data.kind = "dict"
    /\ DictGet(data.d, "intent") = JStr(intent)
    /\ ~Truthy(DictGet(data.d, "duration"))

\* C25: a message classified CREATE_PLAN or ANSWER_DURATION without a
\* duration is answered with a duration question; the script issues no
\* generation call but the classification, starts no plan run, and leaves
\* pending plan, total budget, plan duration, feedback mode and memory as
\* they are
C25_ClarificationOnly ==
    [][(pc = "idle" /\ IsSet(intent_data')
          /\ (\/ NoDuration(intent_data'.v, "CREATE_PLAN")
              \/ NoDuration(intent_data'.v, "ANSWER_DURATION"))) =>
          /\ live_chat' =
                live_chat \o << UserMsg,
                    Assistant(IF NoDuration(intent_data'.v, "CREATE_PLAN")
                              THEN "ask_days" ELSE "need_number") >>
          /\ calls' = << "Intent" >>
          /\ pc' = "end"
          /\ entry' = "none"
          /\ wf' = NoWorkflow
          /\ UNCHANGED << pending_plan, total_budget, plan_duration,
                          feedback_mode, agent_memory >>]_vars

\* with a generated plan pending, a CREATE_PLAN message without a
\* duration was answered with the question for the days
C25_AskedForDays ==
    /\ pc = "end"
    /\ IsSet(intent_data)
    /\ NoDuration(intent_data.v, "CREATE_PLAN")
    /\ live_chat[Len(live_chat)] = Assistant("ask_days")
    /\ IsSet(current_strategy)
    /\ pending_plan = current_strategy

C27_FeedbackRouting ==
    [][/\ (feedback_mode /\ pc = "idle" /\ pc' # "idle" /\ entry' # "forecast") =>
             /\ entry' = "feedback"
             /\ wf'.feedback = Some("too expensive")
             /\ (IsSet(total_budget) /\ isdigit(total_budget.v)) =>
                   wf'.previous_cost = Some(int(total_budget.v))
       /\ feedback_mode =>
             /\ IsNone(intent_data')
             /\ \A i \in 1..Len(calls') : calls'[i] # "Intent"
       /\ (entry = "feedback" /\ pc # "end" /\ pc' = "end" /\ ~wf'.failed) =>
             /\ feedback_mode' = FALSE
             /\ pending_plan' = wf'.final_output
       /\ (feedback_mode /\ ~feedback_mode') => RunCompleted]_vars

\* the run started by a feedback text has completed
C27_FeedbackRunCompleted ==
    /\ Completed
    /\ entry = "feedback"
    /\ wf.feedback = Some("too expensive")
    /\ wf.previous_cost = Some(1500)
    /\ ~feedback_mode
    /\ pending_plan = wf.final_output

\* C28: every call of generate_plan_workflow receives a duration within
\* 1..7, and the split of the cost target over the days never divides by 0
C28_DurationInRange ==
    /\ entry # "none" => wf.duration \in 1..7
    /\ raised # "ZeroDivisionError"

\* C29: whenever a plan is pending the stored plan duration is defined,
\* and for the plan of the session's last run it is the duration of that
\* run
C29_DurationOfPendingPlan ==
    ~IsNone(pending_plan) =>
        /\ IsSet(plan_duration)
        /\ (IsSet(current_strategy) /\ pending_plan = current_strategy) =>
              agent_memory.plan_duration = Some(plan_duration.v)

\* C30: in feedback mode a plan is pending
C30_FeedbackModeHasPlan == feedback_mode => ~IsNone(pending_plan)

\* in feedback mode, after the rejection of a generated plan, a plan of
\* the history was loaded in its place
C30_HistoryLoadedInFeedback ==
    /\ pc = "idle"
    /\ feedback_mode
    /\ IsSet(current_strategy)
    /\ IsSet(pending_plan)
    /\ pending_plan # current_strategy

=============================================================================
